---------------------------- MODULE Spec2Model ----------------------------
(***************************************************************************)
(* A model of mu0.c: the two-pass MU0 assembler (label table, first pass,  *)
(* second pass) and the MU0 fetch-execute emulator with its memory-mapped  *)
(* console.                                                                *)
(*                                                                         *)
(* Text is modelled as text: a source line, a token and an emitted word    *)
(* are sequences of one-character strings, and sscanf("%s"), strncmp,      *)
(* strtol(.., 0), printf("%x") and fscanf("%x") are operators over them.   *)
(*                                                                         *)
(* Three specifications share the variables:                              *)
(*   SpecLabel  any sequence of add_label calls on a label table;          *)
(*   SpecAsm    assemble() run line by line over a bounded source file;    *)
(*   Spec       emulate() run step by step over a bounded machine-code     *)
(*              file, step limit and console input.                        *)
(***************************************************************************)
EXTENDS Integers, Sequences, FiniteSets, TLC

VARIABLES
    \* assembler
    src,        \* the source file: a sequence of lines (fin)
    phase,      \* "idle" | "pass1" | "pass2" | "done" | "exit1"
    pos,        \* index of the line the next fgets returns
    addr,       \* generate_label_table's address counter
    table,      \* the label table, most recent definition first
    out,        \* the machine-code lines written to fout
    warnings,   \* number of "Ignoring bad line" diagnostics
    \* label table driven on its own
    calls,      \* the add_label calls made so far, oldest first
    \* emulator
    mem,        \* mem->data, cells 0 .. size-1 (as a sequence, cell a at a+1)
    PC, ACC, IR,
    state,      \* "FETCH" | "EXECUTE"
    done,       \* the terminal flag
    steps,
    limit,
    stdin,      \* console input not yet consumed
    stdout,     \* console output, as bytes
    pc,         \* "idle" | "loop" | "returned" | "exit139" | "exit1"
    reported,   \* "Step limit exceeded" was printed
    \* history of the run, read by no action
    executed,   \* iterations that ran the EXECUTE case so far
    jumps       \* jumps taken so far (JMP, or JGE/JNE with the test true)

asmVars == <<src, phase, pos, addr, table, out, warnings>>
labVars == <<calls>>
emuVars ==
    <<mem, PC, ACC, IR, state, done, steps, limit, stdin, stdout, pc, reported,
      executed, jumps>>
vars == <<asmVars, labVars, emuVars>>

(***************************************************************************)
(* Bounds of the model.                                                    *)
(***************************************************************************)
MaxLines == 3
MaxTable == 3
MaxAddr == 2
MaxMem == 3
MaxSteps == 6

(***************************************************************************)
(* Program constants.                                                      *)
(***************************************************************************)
IO_ADDRESS == 4095
LDA == 0
STO == 1
ADD == 2
SUB == 3
JMP == 4
JGE == 5
JNE == 6
STP == 7

LABEL_C == ":"
NUM_LITERAL_C == "#"
CHAR_LITERAL_C == "$"
COMMENT_C == ";"

opcode_str ==
    << <<"L","D","A">>, <<"S","T","O">>, <<"A","D","D">>, <<"S","U","B">>,
       <<"J","M","P">>, <<"J","G","E">>, <<"J","N","E">>, <<"S","T","P">> >>

(***************************************************************************)
(* The C library, as far as mu0.c uses it.                                 *)
(***************************************************************************)
HexDigitChars ==
    <<"0","1","2","3","4","5","6","7","8","9","a","b","c","d","e","f">>

isspace(c) == c \in {" ", "\t", "\n", "\r", "\f"}

\* s + k
Drop(s, k) == SubSeq(s, k + 1, Len(s))

RECURSIVE SkipSpace(_)
SkipSpace(s) ==
    IF s = <<>> THEN <<>>
    ELSE IF isspace(s[1]) THEN SkipSpace(Tail(s))
    ELSE s

RECURSIVE TakeWord(_)
TakeWord(s) ==
    IF s = <<>> \/ isspace(s[1]) THEN <<>>
    ELSE <<s[1]>> \o TakeWord(Tail(s))

\* sscanf(s, "%s", buf): skips white space, then stores the run of
\* non-white-space characters; with none left it stores nothing (ok = FALSE).
sscanf_s(s) ==
    LET w == TakeWord(SkipSpace(s))
    IN  [ok |-> w # <<>>, str |-> w]

\* !strncmp(line, m, 3) for a three-letter m
strncmp3(line, m) == Len(line) >= 3 /\ SubSeq(line, 1, 3) = m

\* the value of a digit character, 99 for any other character
DigitVal(c) ==
    IF \E i \in 1..16 : HexDigitChars[i] = c
    THEN (CHOOSE i \in 1..16 : HexDigitChars[i] = c) - 1
    ELSE CASE c = "A" -> 10 [] c = "B" -> 11 [] c = "C" -> 12
           [] c = "D" -> 13 [] c = "E" -> 14 [] c = "F" -> 15
           [] OTHER -> 99

RECURSIVE ParseDigits(_, _, _)
ParseDigits(s, base, acc) ==
    IF s = <<>> \/ DigitVal(s[1]) >= base THEN acc
    ELSE ParseDigits(Tail(s), base, acc * base + DigitVal(s[1]))

\* strtol(s, NULL, 0): white space, an optional sign, then 0x.. as
\* hexadecimal, 0.. as octal, anything else as decimal; 0 when no digit.
strtol(s) ==
    LET t   == SkipSpace(s)
        neg == t # <<>> /\ t[1] = "-"
        u   == IF t # <<>> /\ t[1] \in {"-", "+"} THEN Tail(t) ELSE t
        v   == IF Len(u) >= 3 /\ u[1] = "0" /\ u[2] \in {"x", "X"}
                  /\ DigitVal(u[3]) < 16
               THEN ParseDigits(Drop(u, 2), 16, 0)
               ELSE IF u # <<>> /\ u[1] = "0" THEN ParseDigits(u, 8, 0)
               ELSE ParseDigits(u, 10, 0)
    IN  IF neg THEN 0 - v ELSE v

RECURSIVE ToHex(_)
ToHex(n) ==
    IF n < 16 THEN <<HexDigitChars[n + 1]>>
    ELSE ToHex(n \div 16) \o <<HexDigitChars[(n % 16) + 1]>>

RECURSIVE ZeroPad(_, _)
ZeroPad(s, w) == IF Len(s) >= w THEN s ELSE ZeroPad(<<"0">> \o s, w)

\* printf("%0<w>x", n) of an int: a negative n prints as its 32-bit
\* two's complement, eight digits.
fmt_x(n, w) ==
    IF n >= 0 THEN ZeroPad(ToHex(n), w)
    ELSE [k \in 1..8 |-> HexDigitChars[((n \div (16 ^ (8 - k))) % 16) + 1]]

\* printf("%0<w>lx", n) of a long: a negative n prints sixteen digits.
fmt_lx(n, w) ==
    IF n >= 0 THEN ZeroPad(ToHex(n), w)
    ELSE [k \in 1..8 |-> "f"] \o fmt_x(n, w)

\* fscanf("%x"): the number a run of hexadecimal digits denotes
scan_x(s) == ParseDigits(s, 16, 0)

\* (int) c for the characters of the model's source files
Ord(c) ==
    CASE c = "A" -> 65 [] c = "B" -> 66 [] c = "\n" -> 10 [] c = " " -> 32
      [] c = "0" -> 48 [] c = "1" -> 49 [] c = ":" -> 58 [] OTHER -> 63

(***************************************************************************)
(* The label table: a linked list, newest entry at the head.               *)
(***************************************************************************)
add_label_append(tbl, label, address) ==
    tbl \o <<[label |-> label, address |-> address]>>

add_label(tbl, label, address) ==
    <<[label |-> label, address |-> address]>> \o tbl

RECURSIVE get_address(_, _)
get_address(tbl, label) ==
    IF tbl = <<>> THEN -1
    ELSE IF label = tbl[1].label THEN tbl[1].address
    ELSE get_address(Tail(tbl), label)

(***************************************************************************)
(* Source files of the model.                                              *)
(***************************************************************************)
five == <<"f","i","v","e">>
L_blank == <<"\n">>
L_comment == <<";"," ","c","\n">>
L_def_five == <<":","f","i","v","e","\n">>
L_def_x == <<":","x","\n">>
L_num5 == <<"#","0","0","0","5","\n">>
L_charA == <<"$","A","\n">>
L_LDA_five == <<"L","D","A"," ",":","f","i","v","e","\n">>
L_JGE_x == <<"J","G","E"," ",":","x","\n">>
L_ADD_hex == <<"A","D","D"," ","0","x","1","\n">>
L_STP == <<"S","T","P","\n">>
L_bad == <<"N","O","P","\n">>
L_LDA_big == <<"L","D","A"," ","4","0","9","7","\n">>
L_num_big == <<"#","0","x","1","0","0","0","5","\n">>

LineSet ==
    { L_blank, L_comment, L_def_five, L_def_x, L_num5, L_charA,
      L_LDA_five, L_JGE_x, L_ADD_hex, L_STP, L_bad, L_LDA_big, L_num_big }

\* the two end-to-end examples of the documentation
Example1 == <<L_LDA_five, L_STP, L_def_five, L_num5>>
Example2 == <<L_STP>>

Sources ==
    UNION { [1..n -> LineSet] : n \in 0..MaxLines } \cup {Example1, Example2}

\* What the uninitialised buffer addr_s may hold when sscanf("%s") stores
\* nothing: zero bytes, or what an earlier call of this run left on the
\* stack, a token of a source line (read at offset 0, 1 or 3), whole or
\* with its last character overwritten by a later call.
StaleTokens(s) ==
    { TakeWord(SkipSpace(Drop(s[i], k))) : i \in 1..Len(s), k \in {0, 1, 3} }

Clobbered(t) == SubSeq(t, 1, Len(t) - 1) \o <<"^A">>

UninitBuf(s) ==
    {<<>>} \cup StaleTokens(s)
           \cup { Clobbered(t) : t \in StaleTokens(s) \ {<<>>} }

(***************************************************************************)
(* The assembler.                                                          *)
(***************************************************************************)
IdleAsm ==
    /\ src = <<>> /\ phase = "idle" /\ pos = 1 /\ addr = 0
    /\ out = <<>> /\ warnings = 0
IdleLab == calls = <<>>
IdleEmu ==
    /\ mem = <<>> /\ PC = 0 /\ ACC = 0 /\ IR = 0 /\ state = "FETCH"
    /\ done = FALSE /\ steps = 0 /\ limit = 0 /\ stdin = <<>>
    /\ stdout = <<>> /\ pc = "idle" /\ reported = FALSE
    /\ executed = 0 /\ jumps = 0

\* first pass, one line: what it does to the table and the address counter
pass1_line_label_counts(line, tbl, a) ==
    IF line[1] = LABEL_C
    THEN [table |-> add_label(tbl, sscanf_s(Drop(line, 1)).str, a + 1),
          addr |-> a + 1]
    ELSE IF ~isspace(line[1]) /\ line[1] # COMMENT_C
    THEN [table |-> tbl, addr |-> a + 1]
    ELSE [table |-> tbl, addr |-> a]

\* a first pass that counts only the lines the second pass can encode
pass1_line_skips_bad(line, tbl, a) ==
    IF line[1] = LABEL_C
    THEN [table |-> add_label(tbl, sscanf_s(Drop(line, 1)).str, a),
          addr |-> a]
    ELSE IF /\ ~isspace(line[1]) /\ line[1] # COMMENT_C
            /\ \/ line[1] \in {NUM_LITERAL_C, CHAR_LITERAL_C}
               \/ \E i \in 1..8 : strncmp3(line, opcode_str[i])
    THEN [table |-> tbl, addr |-> a + 1]
    ELSE [table |-> tbl, addr |-> a]

pass1_line(line, tbl, a) ==
    IF line[1] = LABEL_C
    THEN [table |-> add_label(tbl, sscanf_s(Drop(line, 1)).str, a),
          addr |-> a]
    ELSE IF ~isspace(line[1]) /\ line[1] # COMMENT_C
    THEN [table |-> tbl, addr |-> a + 1]
    ELSE [table |-> tbl, addr |-> a]

\* generate_label_table: one iteration of its while loop
GenerateLabelTableStep ==
    /\ phase = "pass1" /\ pos <= Len(src)
    /\ LET r == pass1_line(src[pos], table, addr)
       IN  table' = r.table /\ addr' = r.addr
    /\ pos' = pos + 1
    /\ UNCHANGED <<src, phase, out, warnings, labVars, emuVars>>

\* fgets returns NULL: rewind(fin), and assemble starts its own loop
GenerateLabelTableReturn ==
    /\ phase = "pass1" /\ pos > Len(src)
    /\ phase' = "pass2" /\ pos' = 1
    /\ UNCHANGED <<src, addr, table, out, warnings, labVars, emuVars>>

\* the index of the first mnemonic the line starts with, -1 if none
MatchOpcode(line) ==
    IF \E i \in 0..7 : strncmp3(line, opcode_str[i + 1])
    THEN CHOOSE i \in 0..7 :
            /\ strncmp3(line, opcode_str[i + 1])
            /\ \A j \in 0..(i - 1) : ~strncmp3(line, opcode_str[j + 1])
    ELSE -1

\* process_opcode encoding an unknown label as operand 0
process_opcode_default_zero(line, tbl, uninit) ==
    LET i      == MatchOpcode(line)
        sc     == sscanf_s(Drop(line, 3))
        addr_s == IF sc.ok THEN sc.str ELSE uninit
        isLab  == addr_s # <<>> /\ addr_s[1] = LABEL_C
        found  == IF isLab THEN get_address(tbl, Tail(addr_s)) ELSE 0
        a      == IF isLab THEN (IF found < 0 THEN 0 ELSE found)
                  ELSE strtol(addr_s)
    IN  IF i < 0 THEN [status |-> "none", text |-> <<>>]
        ELSE [status |-> "ok", text |-> fmt_x(i, 1) \o fmt_x(a, 3)]

\* process_opcode; uninit is what addr_s holds before sscanf is called.
\* status "ok": text was written and 1 returned; "exit": exit(1);
\* "none": no mnemonic matched and 0 returned.
process_opcode(line, tbl, uninit) ==
    LET i      == MatchOpcode(line)
        sc     == sscanf_s(Drop(line, 3))
        addr_s == IF sc.ok THEN sc.str ELSE uninit
        isLab  == addr_s # <<>> /\ addr_s[1] = LABEL_C
        a      == IF isLab THEN get_address(tbl, Tail(addr_s))
                  ELSE strtol(addr_s)
    IN  IF i < 0 THEN [status |-> "none", text |-> <<>>]
        ELSE IF isLab /\ a < 0 THEN [status |-> "exit", text |-> <<>>]
        ELSE [status |-> "ok", text |-> fmt_x(i, 1) \o fmt_x(a, 3)]

AssembleGuard == phase = "pass2" /\ pos <= Len(src)

\* assemble, lines 189-193
AssembleIgnore ==
    /\ AssembleGuard
    /\ LET c == src[pos][1]
       IN  c = LABEL_C \/ c = COMMENT_C \/ isspace(c)
    /\ pos' = pos + 1
    /\ UNCHANGED <<src, phase, addr, table, out, warnings, labVars, emuVars>>

IsData(line) ==
    LET c == line[1]
    IN  ~(c = LABEL_C \/ c = COMMENT_C \/ isspace(c))

\* assemble, lines 194-198
AssembleNumLiteral ==
    /\ AssembleGuard
    /\ IsData(src[pos]) /\ src[pos][1] = NUM_LITERAL_C
    /\ out' = Append(out, fmt_lx(strtol(Drop(src[pos], 1)), 4))
    /\ pos' = pos + 1
    /\ UNCHANGED <<src, phase, addr, table, warnings, labVars, emuVars>>

\* assemble, lines 199-203
AssembleCharLiteral ==
    /\ AssembleGuard
    /\ IsData(src[pos]) /\ src[pos][1] = CHAR_LITERAL_C
    /\ out' = Append(out, fmt_x(IF Len(src[pos]) >= 2 THEN Ord(src[pos][2]) ELSE 0, 4))
    /\ pos' = pos + 1
    /\ UNCHANGED <<src, phase, addr, table, warnings, labVars, emuVars>>

\* assemble, lines 204-211
AssembleOpcode ==
    /\ AssembleGuard
    /\ IsData(src[pos])
    /\ src[pos][1] \notin {NUM_LITERAL_C, CHAR_LITERAL_C}
    /\ \E u \in UninitBuf(src) :
         LET r == process_opcode(src[pos], table, u)
         IN  CASE r.status = "ok" ->
                    /\ out' = Append(out, r.text)
                    /\ pos' = pos + 1
                    /\ UNCHANGED <<phase, warnings>>
               [] r.status = "exit" ->
                    /\ phase' = "exit1"
                    /\ UNCHANGED <<out, pos, warnings>>
               [] OTHER ->
                    /\ warnings' = warnings + 1
                    /\ pos' = pos + 1
                    /\ UNCHANGED <<out, phase>>
    /\ UNCHANGED <<src, addr, table, labVars, emuVars>>

\* fgets returns NULL: free_table and return
AssembleReturn ==
    /\ phase = "pass2" /\ pos > Len(src)
    /\ phase' = "done"
    /\ UNCHANGED <<src, pos, addr, table, out, warnings, labVars, emuVars>>

InitAsm ==
    /\ src \in Sources
    /\ phase = "pass1" /\ pos = 1 /\ addr = 0 /\ table = <<>>
    /\ out = <<>> /\ warnings = 0
    /\ IdleLab /\ IdleEmu

NextAsm ==
    \/ GenerateLabelTableStep
    \/ GenerateLabelTableReturn
    \/ AssembleIgnore
    \/ AssembleNumLiteral
    \/ AssembleCharLiteral
    \/ AssembleOpcode
    \/ AssembleReturn

SpecAsm == InitAsm /\ [][NextAsm]_vars

(***************************************************************************)
(* The label table driven by arbitrary add_label calls.                    *)
(***************************************************************************)
LabelNames == { five, <<"x">> }

AddLabel ==
    /\ Len(table) < MaxTable
    /\ \E l \in LabelNames, a \in 0..MaxAddr :
         /\ table' = add_label(table, l, a)
         /\ calls' = Append(calls, [label |-> l, address |-> a])
    /\ UNCHANGED <<src, phase, pos, addr, out, warnings, emuVars>>

InitLabel == table = <<>> /\ IdleAsm /\ IdleLab /\ IdleEmu

NextLabel == AddLabel

SpecLabel == InitLabel /\ [][NextLabel]_vars

(***************************************************************************)
(* Machine-code files, step limits and console inputs of the model.        *)
(***************************************************************************)
W_0002 == <<"0","0","0","2">>
W_0fff == <<"0","f","f","f">>
W_1002 == <<"1","0","0","2">>
W_1fff == <<"1","f","f","f">>
W_2002 == <<"2","0","0","2">>
W_3002 == <<"3","0","0","2">>
W_4000 == <<"4","0","0","0">>
W_4002 == <<"4","0","0","2">>
W_4fff == <<"4","f","f","f">>
W_5000 == <<"5","0","0","0">>
W_6000 == <<"6","0","0","0">>
W_7000 == <<"7","0","0","0">>
W_0005 == <<"0","0","0","5">>
W_0001 == <<"0","0","0","1">>
W_8000 == <<"8","0","0","0">>

WordTexts ==
    { W_0002, W_0fff, W_1002, W_1fff, W_2002, W_3002, W_4000, W_4002, W_4fff,
      W_5000, W_6000, W_7000, W_0005, W_0001, W_8000 }

CodeFiles == UNION { [1..n -> WordTexts] : n \in 0..MaxMem }

\* -l 0 or no -l, and two positive limits
Limits == {0, 2, 4}

\* console input, as the values scanf("%c") stores
Inputs == { <<>>, <<65, 66>> }

\* what the char c may hold when scanf("%c") stores nothing (end of input)
UninitChar == {0, 66}

\* what the word just past the end of mem->data may hold
PastEnd == {0, 4095, 28672}

(***************************************************************************)
(* The emulator.                                                           *)
(***************************************************************************)
\* mem_size: the number of words fscanf("%x") reads
mem_size(f) == Len(f)

\* read_machine_code: mem->data[i] for i < mem->size
read_machine_code(f) == [i \in 1..mem_size(f) |-> scan_x(f[i])]

\* an opcode field of three bits
get_opcode_3bit(x) == (x \div 4096) % 8

\* x >> 12 (arithmetic for a negative x) and x & 0xfff
get_opcode(x) == x \div 4096
get_operand(x) == x % 4096

\* get with the bounds check ahead of the reserved address
get_bounds_first(m, address, input) ==
    IF address < 0 \/ address > Len(m)
    THEN { [fault |-> TRUE, x |-> 0, rest |-> input] }
    ELSE IF address = IO_ADDRESS
    THEN { [fault |-> FALSE, x |-> Head(input), rest |-> Tail(input)] }
    ELSE IF address = Len(m)
    THEN { [fault |-> FALSE, x |-> g, rest |-> input] : g \in PastEnd }
    ELSE { [fault |-> FALSE, x |-> m[address + 1], rest |-> input] }

\* get(mem, address): the possible outcomes.  fault: exit(139); x: the value
\* returned; rest: the console input left.  address > mem->size compares as
\* unsigned, so a negative address is out of range; address = mem->size
\* passes the check and reads the word past the end of the array.
get(m, address, input) ==
    IF address = IO_ADDRESS
    THEN IF input # <<>>
         THEN { [fault |-> FALSE, x |-> Head(input), rest |-> Tail(input)] }
         ELSE { [fault |-> FALSE, x |-> c, rest |-> input] : c \in UninitChar }
    ELSE IF address < 0 \/ address > Len(m)
    THEN { [fault |-> TRUE, x |-> 0, rest |-> input] }
    ELSE IF address = Len(m)
    THEN { [fault |-> FALSE, x |-> g, rest |-> input] : g \in PastEnd }
    ELSE { [fault |-> FALSE, x |-> m[address + 1], rest |-> input] }

\* set writing the int itself to the console
set_whole_int(m, address, value, output) ==
    IF address = IO_ADDRESS
    THEN [fault |-> FALSE, mem |-> m, stdout |-> Append(output, value)]
    ELSE IF address < 0 \/ address > Len(m)
    THEN [fault |-> TRUE, mem |-> m, stdout |-> output]
    ELSE IF address = Len(m)
    THEN [fault |-> FALSE, mem |-> m, stdout |-> output]
    ELSE [fault |-> FALSE, mem |-> [m EXCEPT ![address + 1] = value],
          stdout |-> output]

\* set storing into the cell after the addressed one
set_next_cell(m, address, value, output) ==
    IF address = IO_ADDRESS
    THEN [fault |-> FALSE, mem |-> m, stdout |-> Append(output, value % 256)]
    ELSE IF address < 0 \/ address > Len(m)
    THEN [fault |-> TRUE, mem |-> m, stdout |-> output]
    ELSE IF address = Len(m)
    THEN [fault |-> FALSE, mem |-> m, stdout |-> output]
    ELSE [fault |-> FALSE,
          mem |-> [m EXCEPT ![((address + 1) % Len(m)) + 1] = value],
          stdout |-> output]

\* set(mem, address, value).  printf("%c") writes the int converted to
\* unsigned char; address = mem->size passes the check and writes past the
\* end of the array, which leaves the cells of the array as they were.
set(m, address, value, output) ==
    IF address = IO_ADDRESS
    THEN [fault |-> FALSE, mem |-> m, stdout |-> Append(output, value % 256)]
    ELSE IF address < 0 \/ address > Len(m)
    THEN [fault |-> TRUE, mem |-> m, stdout |-> output]
    ELSE IF address = Len(m)
    THEN [fault |-> FALSE, mem |-> m, stdout |-> output]
    ELSE [fault |-> FALSE, mem |-> [m EXCEPT ![address + 1] = value],
          stdout |-> output]

LoopCond_inclusive == ~done /\ (limit <= 0 \/ steps <= limit)

\* a loop that never looks at the step limit
LoopCond_unlimited == ~done

\* the condition of emulate's while loop
LoopCond == ~done /\ (limit <= 0 \/ steps < limit)

\* one iteration of the loop starts: steps++
Iterate ==
    /\ pc = "loop" /\ LoopCond /\ steps < MaxSteps
    /\ steps' = steps + 1
    /\ UNCHANGED <<limit, reported, asmVars, labVars>>

\* an instruction fetch that checks the bounds before the reserved address
FetchInto_bounds_first(address) ==
    /\ PC' = address + 1
    /\ \E r \in get_bounds_first(mem, address, stdin) :
         IF r.fault
         THEN pc' = "exit139" /\ UNCHANGED <<IR, stdin>>
         ELSE pc' = pc /\ IR' = r.x /\ stdin' = r.rest

\* IR = get(mem, PC++)
FetchInto(address) ==
    /\ PC' = address + 1
    /\ \E r \in get(mem, address, stdin) :
         IF r.fault
         THEN pc' = "exit139" /\ UNCHANGED <<IR, stdin>>
         ELSE pc' = pc /\ IR' = r.x /\ stdin' = r.rest

\* lines 336-340
Fetch ==
    /\ Iterate /\ state = "FETCH"
    /\ FetchInto(PC)
    /\ state' = "EXECUTE"
    /\ UNCHANGED <<mem, ACC, done, stdout, executed, jumps>>

Executing(op) ==
    /\ Iterate /\ state = "EXECUTE" /\ get_opcode(IR) = op
    /\ executed' = executed + 1

\* the new ACC of LDA (=), ADD (+=) and SUB (-=)
Alu(op, acc, x) ==
    IF op = LDA THEN x ELSE IF op = ADD THEN acc + x ELSE acc - x

\* ACC = / += / -= get(mem, get_operand(IR)); state = FETCH
Load(op) ==
    /\ Executing(op)
    /\ \E r \in get(mem, get_operand(IR), stdin) :
         IF r.fault
         THEN pc' = "exit139" /\ UNCHANGED <<ACC, stdin, state>>
         ELSE /\ pc' = pc /\ ACC' = Alu(op, ACC, r.x) /\ stdin' = r.rest
              /\ state' = "FETCH"
    /\ UNCHANGED <<mem, PC, IR, done, stdout, jumps>>

\* lines 345-348
ExecLDA == Load(LDA)

\* lines 349-352
ExecSTO ==
    /\ Executing(STO)
    /\ LET r == set(mem, get_operand(IR), ACC, stdout)
       IN  IF r.fault
           THEN pc' = "exit139" /\ UNCHANGED <<mem, stdout, state>>
           ELSE /\ pc' = pc /\ mem' = r.mem /\ stdout' = r.stdout
                /\ state' = "FETCH"
    /\ UNCHANGED <<PC, ACC, IR, done, stdin, jumps>>

\* lines 353-356
ExecADD == Load(ADD)

\* lines 357-360
ExecSUB == Load(SUB)

\* a jump that goes back to the FETCH state instead of fetching inline
JumpTo_via_fetch(a) ==
    /\ PC' = a
    /\ state' = "FETCH"
    /\ jumps' = jumps + 1
    /\ UNCHANGED <<mem, ACC, IR, done, stdin, stdout, pc>>

\* PC = get_operand(IR); IR = get(mem, PC++); the state stays EXECUTE
JumpTo(a) ==
    /\ FetchInto(a)
    /\ jumps' = jumps + 1
    /\ UNCHANGED <<mem, ACC, state, done, stdout>>

NoJump ==
    /\ state' = "FETCH"
    /\ UNCHANGED <<mem, PC, ACC, IR, done, stdin, stdout, pc, jumps>>

\* JGE branching on ACC > 0
TakesJGE_strict == ACC > 0

\* the tests of lines 366 and 377
TakesJGE == ACC >= 0
TakesJNE == ACC # 0

\* lines 361-364
ExecJMP == Executing(JMP) /\ JumpTo(get_operand(IR))

\* lines 365-375
ExecJGE ==
    /\ Executing(JGE)
    /\ IF TakesJGE THEN JumpTo(get_operand(IR)) ELSE NoJump

\* lines 376-386
ExecJNE ==
    /\ Executing(JNE)
    /\ IF TakesJNE THEN JumpTo(get_operand(IR)) ELSE NoJump

\* lines 387-389
ExecSTP ==
    /\ Executing(STP)
    /\ done' = TRUE
    /\ UNCHANGED <<mem, PC, ACC, IR, state, stdin, stdout, pc, jumps>>

\* get_opcode(IR) matches no case of the switch
ExecNoCase ==
    /\ Iterate /\ state = "EXECUTE" /\ get_opcode(IR) \notin 0..7
    /\ executed' = executed + 1
    /\ UNCHANGED <<mem, PC, ACC, IR, state, done, stdin, stdout, pc, jumps>>

\* the loop ends; lines 393-396
EmulateReturn ==
    /\ pc = "loop" /\ ~LoopCond
    /\ reported' = ~done
    /\ pc' = "returned"
    /\ UNCHANGED <<mem, PC, ACC, IR, state, done, steps, limit, stdin, stdout,
                   executed, jumps, asmVars, labVars>>

\* main: read_machine_code, then emulate's initialisation.  malloc(0) for
\* an empty file may return NULL, and then read_machine_code calls exit(1).
Init ==
    /\ \E f \in CodeFiles :
         /\ mem = read_machine_code(f)
         /\ pc \in (IF mem_size(f) = 0 THEN {"loop", "exit1"} ELSE {"loop"})
    /\ limit \in Limits
    /\ stdin \in Inputs
    /\ PC = 0 /\ ACC = 0 /\ IR = 0 /\ state = "FETCH"
    /\ done = FALSE /\ steps = 0
    /\ stdout = <<>> /\ reported = FALSE
    /\ executed = 0 /\ jumps = 0
    /\ table = <<>> /\ IdleAsm /\ IdleLab

Next ==
    \/ Fetch
    \/ ExecLDA
    \/ ExecSTO
    \/ ExecADD
    \/ ExecSUB
    \/ ExecJMP
    \/ ExecJGE
    \/ ExecJNE
    \/ ExecSTP
    \/ ExecNoCase
    \/ EmulateReturn

Spec == Init /\ [][Next]_vars

\* emulate is one sequential loop: while an iteration or the return is
\* possible the process takes it (a console read returns at once, with a
\* character or at end of input)
SpecLive == Init /\ [][Next]_vars /\ WF_vars(Next)

(***************************************************************************)
(* Properties of the emulator.                                             *)
(***************************************************************************)
\* an iteration of the loop is about to run
Running == pc = "loop" /\ LoopCond /\ steps < MaxSteps

AboutToExecute(op) == Running /\ state = "EXECUTE" /\ get_opcode(IR) = op

\* the next iteration executes a jump that is taken
AboutToJump ==
    \/ AboutToExecute(JMP)
    \/ AboutToExecute(JGE) /\ ACC >= 0
    \/ AboutToExecute(JNE) /\ ACC # 0

\* the next iteration calls get or set
Accesses ==
    /\ Running
    /\ \/ state = "FETCH"
       \/ state = "EXECUTE" /\ get_opcode(IR) \in {LDA, STO, ADD, SUB}
       \/ AboutToJump

\* ... with this address
AccessAddress == IF state = "FETCH" THEN PC ELSE get_operand(IR)

\* the step went to the jump target: it fetched there, or faulted doing so
Branched ==
    /\ PC' = get_operand(IR) + 1
    /\ pc' = "exit139" \/ state' = "EXECUTE"

\* C4: executing JGE branches if and only if ACC >= 0, executing JNE if and
\* only if ACC # 0; a branch not taken leaves PC and IR unchanged and goes
\* to the FETCH state.
C4_ConditionalJumps ==
    [][ /\ AboutToExecute(JGE) =>
             /\ (ACC >= 0) <=> Branched
             /\ (ACC < 0) =>
                  PC' = PC /\ IR' = IR /\ state' = "FETCH" /\ pc' = "loop"
        /\ AboutToExecute(JNE) =>
             /\ (ACC # 0) <=> Branched
             /\ (ACC = 0) =>
                  PC' = PC /\ IR' = IR /\ state' = "FETCH" /\ pc' = "loop"
      ]_vars

\* JGE was executed with ACC = -1 and did not branch
C4_Witness ==
    /\ pc = "loop" /\ steps > 0
    /\ state = "FETCH" /\ get_opcode(IR) = JGE /\ ACC = -1

\* C5: a taken jump with operand a sets, within its one step, PC to a + 1
\* and IR to the word read at a, stays in the EXECUTE state and leaves ACC
\* unchanged (unless the read at a is the fatal out-of-range access).
C5_JumpInlineFetch ==
    [][ AboutToJump =>
          LET a == get_operand(IR)
          IN  /\ PC' = a + 1
              /\ ACC' = ACC /\ mem' = mem /\ done' = done
              /\ state' = "EXECUTE"
              /\ steps' = steps + 1
              /\ pc' \in {"loop", "exit139"}
              /\ (a < Len(mem)) => (pc' = "loop" /\ IR' = mem[a + 1])
              /\ (a = IO_ADDRESS /\ stdin # <<>>) =>
                    (pc' = "loop" /\ IR' = Head(stdin))
      ]_vars

\* JMP 0 at address 0 has been executed once: after two steps the machine
\* is in the EXECUTE state again, with the jump target fetched
C5_Witness ==
    /\ pc = "loop" /\ steps = 2 /\ state = "EXECUTE"
    /\ mem # <<>> /\ mem[1] = 16384 /\ IR = 16384 /\ PC = 1

\* C7: get and set at an address outside [0, size), other than the
\* reserved address, end the run with the out-of-range fault and touch no
\* cell.
C7_OutOfRangeFaults ==
    [][ ( /\ Accesses
          /\ AccessAddress # IO_ADDRESS
          /\ AccessAddress \notin 0..(Len(mem) - 1) ) =>
        (pc' = "exit139" /\ mem' = mem)
      ]_vars

\* C8: get and set at the reserved address never fault and leave every
\* memory cell unchanged, whatever the memory size.
C8_ReservedAddressFirst ==
    [][ (Accesses /\ AccessAddress = IO_ADDRESS) =>
        (mem' = mem /\ pc' = "loop")
      ]_vars

\* a one-word memory whose LDA 0xfff has read the first input character
C8_Witness ==
    /\ pc = "loop" /\ steps = 2 /\ state = "FETCH"
    /\ mem = <<4095>> /\ ACC = 65 /\ stdin = <<66>>

ConsoleLDA == AboutToExecute(LDA) /\ get_operand(IR) = IO_ADDRESS
ConsoleSTO == AboutToExecute(STO) /\ get_operand(IR) = IO_ADDRESS

\* C9 as stated: LDA 0xfff takes the next input character into ACC, STO
\* 0xfff appends the character whose code is ACC; PC, IR and memory stay.
C9_ConsoleAsStated ==
    [][ /\ (ConsoleLDA /\ stdin # <<>>) =>
             /\ ACC' = Head(stdin) /\ stdin' = Tail(stdin)
             /\ stdout' = stdout
             /\ PC' = PC /\ IR' = IR /\ mem' = mem
        /\ ConsoleSTO =>
             /\ stdout' = Append(stdout, ACC)
             /\ stdin' = stdin /\ ACC' = ACC
             /\ PC' = PC /\ IR' = IR /\ mem' = mem
      ]_vars

\* C9 as amended: LDA 0xfff, a character being available, consumes exactly
\* the next input character and sets ACC to it; STO 0xfff appends exactly
\* one character, whose code is ACC modulo 256; neither changes PC, IR or
\* memory, and input is consumed and output produced in execution order.
C9_ConsoleBytes ==
    [][ /\ (ConsoleLDA /\ stdin # <<>>) =>
             /\ ACC' = Head(stdin) /\ stdin' = Tail(stdin)
             /\ stdout' = stdout
             /\ PC' = PC /\ IR' = IR /\ mem' = mem
        /\ ConsoleSTO =>
             /\ stdout' = Append(stdout, ACC % 256)
             /\ stdin' = stdin /\ ACC' = ACC
             /\ PC' = PC /\ IR' = IR /\ mem' = mem
      ]_vars

\* STO 0xfff was executed with ACC = -1 and wrote the byte 255
C9_Witness ==
    /\ pc = "loop" /\ state = "FETCH"
    /\ get_opcode(IR) = STO /\ get_operand(IR) = IO_ADDRESS
    /\ ACC = -1 /\ stdout = <<255>>

\* C10: with a positive limit the step counter never exceeds it; "Step
\* limit exceeded" is reported exactly when the loop has ended without STP,
\* which happens only with a positive limit, at steps = limit.
C10_StepLimit ==
    /\ (limit > 0) => steps <= limit
    /\ reported <=> (pc = "returned" /\ ~done)
    /\ (pc = "returned" /\ ~done) => (limit > 0 /\ steps = limit)
    /\ (pc = "returned" /\ limit <= 0) => done

\* STP executed on step 2 of a run limited to 2 steps: a clean halt
C10_Witness ==
    /\ limit = 2 /\ steps = 2 /\ done
    /\ pc = "returned" /\ ~reported

(***************************************************************************)
(* Properties of the label table.                                          *)
(***************************************************************************)
Added(l) == \E i \in 1..Len(calls) : calls[i].label = l

LastCall(l) ==
    CHOOSE i \in 1..Len(calls) :
        /\ calls[i].label = l
        /\ \A j \in (i + 1)..Len(calls) : calls[j].label # l

\* C3: after any sequence of add_label calls, get_address of a name returns
\* the address of the most recent add_label call for that name, and -1
\* exactly for the names never added.
C3_LastDefinitionWins ==
    \A l \in LabelNames \cup { <<"y">> } :
        IF Added(l)
        THEN get_address(table, l) = calls[LastCall(l)].address
        ELSE get_address(table, l) = -1

\* a name added twice with two addresses, looked up after the second call
C3_Witness ==
    \E i, j \in 1..Len(calls) :
        /\ i < j /\ j = LastCall(calls[j].label)
        /\ calls[i].label = calls[j].label
        /\ calls[i].address # calls[j].address
        /\ get_address(table, calls[j].label) = calls[j].address

(***************************************************************************)
(* Properties of the assembler, stated over the source text.               *)
(***************************************************************************)
\* a line that is neither blank, nor a comment, nor a label definition
WordLine(line) ==
    ~isspace(line[1]) /\ line[1] # COMMENT_C /\ line[1] # LABEL_C

IsMnemonic(line) == \E i \in 1..8 : strncmp3(line, opcode_str[i])

Malformed(line) ==
    /\ WordLine(line)
    /\ line[1] \notin {NUM_LITERAL_C, CHAR_LITERAL_C}
    /\ ~IsMnemonic(line)

NoMalformed(s) == \A i \in 1..Len(s) : ~Malformed(s[i])

\* the number of word-producing lines before line k
WordsBefore(s, k) == Cardinality({ i \in 1..(k - 1) : WordLine(s[i]) })

NumWordLines(s) == WordsBefore(s, Len(s) + 1)

\* the operand token of a mnemonic line, as written in the source
OperandToken(line) == TakeWord(SkipSpace(Drop(line, 3)))

LabelRef(line) ==
    /\ WordLine(line) /\ IsMnemonic(line)
    /\ OperandToken(line) # <<>> /\ OperandToken(line)[1] = LABEL_C

RefName(line) == Tail(OperandToken(line))

DefinesLabel(line, name) ==
    line[1] = LABEL_C /\ TakeWord(SkipSpace(Drop(line, 1))) = name

Defined(s, name) == \E d \in 1..Len(s) : DefinesLabel(s[d], name)

\* the definition line a lookup finds: the last one of that name
DefLine(s, name) ==
    CHOOSE d \in 1..Len(s) :
        /\ DefinesLabel(s[d], name)
        /\ \A e \in (d + 1)..Len(s) : ~DefinesLabel(s[e], name)

MnemonicIndex(line) == CHOOSE i \in 0..7 : strncmp3(line, opcode_str[i + 1])

\* three hexadecimal digits of a small address
Hex3(n) ==
    << HexDigitChars[((n \div 256) % 16) + 1],
       HexDigitChars[((n \div 16) % 16) + 1],
       HexDigitChars[(n % 16) + 1] >>

\* C1: in a source without malformed lines, the word emitted for a line
\* that references a label carries as operand the number of word-producing
\* lines that precede the label's definition line (the last one of that
\* name), whether that definition comes before or after the reference.
C1_LabelResolves ==
    (phase \in {"pass2", "done", "exit1"} /\ NoMalformed(src)) =>
        \A r \in 1..Len(src) :
            (LabelRef(src[r]) /\ WordsBefore(src, r) < Len(out)) =>
                /\ Defined(src, RefName(src[r]))
                /\ out[WordsBefore(src, r) + 1] =
                     <<HexDigitChars[MnemonicIndex(src[r]) + 1]>> \o
                     Hex3(WordsBefore(src, DefLine(src, RefName(src[r]))))

\* a forward and a backward reference to the same label, both assembled
C1_Witness ==
    /\ phase = "done"
    /\ src = <<L_JGE_x, L_def_x, L_JGE_x>>
    /\ out = << <<"5","0","0","1">>, <<"5","0","0","1">> >>

\* every line is blank, a comment, a label definition, a literal, or a
\* mnemonic line whose label operand, if any, is defined in the source
ValidSource(s) ==
    /\ NoMalformed(s)
    /\ \A r \in 1..Len(s) : LabelRef(s[r]) => Defined(s, RefName(s[r]))

\* C2: for every valid source, assemble emits as many words as there are
\* non-blank, non-comment, non-label lines, which is also the final value
\* of the first pass's address counter.
C2_WordCount ==
    (phase \in {"done", "exit1"} /\ ValidSource(src)) =>
        /\ Len(out) = NumWordLines(src)
        /\ addr = NumWordLines(src)

\* C6 (assembler half): the two documented sources assemble to
\* 0002 7000 0005 and to 7000.
C6_EndToEnd ==
    /\ (src = Example1 /\ phase \in {"done", "exit1"}) =>
          /\ phase = "done"
          /\ out = << <<"0","0","0","2">>, <<"7","0","0","0">>,
                      <<"0","0","0","5">> >>
    /\ (src = Example2 /\ phase \in {"done", "exit1"}) =>
          /\ phase = "done"
          /\ out = << <<"7","0","0","0">> >>

\* C11: every emitted word is written as exactly four hexadecimal digits;
\* a mnemonic line with opcode index i and operand value v (a parsed
\* integer or a resolved label address) emits i * 4096 + (v mod 4096), and
\* a '#' line with value n emits n mod 65536.
C11_FourDigitWords ==
    [][ (AssembleGuard /\ out' # out) =>
          LET line == src[pos]
              w    == out'[Len(out')]
              v    == IF LabelRef(line)
                      THEN get_address(table, RefName(line))
                      ELSE strtol(OperandToken(line))
          IN  /\ Len(w) = 4
              /\ (line[1] = NUM_LITERAL_C) =>
                    scan_x(w) = strtol(Drop(line, 1)) % 65536
              /\ (WordLine(line) /\ IsMnemonic(line)
                    /\ OperandToken(line) # <<>>) =>
                    scan_x(w) = MnemonicIndex(line) * 4096 + (v % 4096)
      ]_vars

\* the second pass is at a line that references a label no line defines
AtUnknownLabel ==
    /\ phase \in {"pass2", "exit1"} /\ pos <= Len(src)
    /\ LabelRef(src[pos]) /\ ~Defined(src, RefName(src[pos]))

\* C13: at a mnemonic line whose label operand is not in the table the
\* assembly ends at once with the failure outcome: that line emits no word,
\* nothing runs after the exit, and the words of the earlier lines are the
\* only output.
C13_UnknownLabelIsFatal ==
    [][ /\ phase # "exit1"
        /\ (AssembleGuard /\ AtUnknownLabel) =>
              (phase' = "exit1" /\ out' = out /\ pos' = pos)
      ]_vars

\* assembly ended at an unknown label after emitting one earlier word
C13_Witness ==
    /\ phase = "exit1" /\ AtUnknownLabel
    /\ src = <<L_num5, L_JGE_x, L_num5>>
    /\ out = << <<"0","0","0","5">> >>

MalformedBefore(s, k) == Cardinality({ i \in 1..(k - 1) : Malformed(s[i]) })

\* line d defines a label, is the definition a lookup finds, and line r is
\* the first word-producing line after it
LabelJustBefore(s, d, r) ==
    /\ d < r /\ s[d][1] = LABEL_C
    /\ d = DefLine(s, TakeWord(SkipSpace(Drop(s[d], 1))))
    /\ \A e \in (d + 1)..(r - 1) : ~WordLine(s[e])

\* C14: a malformed line gets a diagnostic and no word in the second pass
\* although the first pass counted it; so a label defined after k malformed
\* lines resolves to the index of the word emitted by the line following
\* the label, plus k.
C14_BadLineShiftsLabels ==
    [][ AssembleGuard =>
          /\ addr = NumWordLines(src)
          /\ Malformed(src[pos]) =>
                (warnings' = warnings + 1 /\ out' = out /\ pos' = pos + 1)
          /\ (out' # out) =>
                \A d \in 1..(pos - 1) :
                    LabelJustBefore(src, d, pos) =>
                        get_address(table, TakeWord(SkipSpace(Drop(src[d], 1))))
                          = Len(out) + MalformedBefore(src, d)
      ]_vars

\* one malformed line, then a label, then a data word: the label resolves
\* to 1 and the word it names is word 0 of the output
C14_Witness ==
    /\ phase = "done" /\ warnings = 1
    /\ src = <<L_bad, L_def_x, L_num5>>
    /\ get_address(table, <<"x">>) = 1
    /\ out = << <<"0","0","0","5">> >>

\* C12: every memory cell holds a value in 0..65535 at all times: the loaded
\* words are in that range and a value stored by STO is reduced to 16 bits.
C12_CellsAre16Bit ==
    pc # "idle" => \A i \in 1..Len(mem) : mem[i] \in 0..65535

\* C15: when the run has halted on STP without a fault, the step counter
\* equals 2 * n - j, n the instructions executed (the STP included) and j
\* the jumps taken: two steps per instruction, one saved by each taken jump.
C15_StepCount ==
    (pc \in {"loop", "returned"} /\ done) => steps = 2 * executed - jumps

\* JMP 2 over one word to the STP: 3 steps, 2 instructions, 1 taken jump
C15_Witness ==
    /\ pc = "returned" /\ done
    /\ steps = 3 /\ executed = 2 /\ jumps = 1

\* C16: frame of one step over PC, ACC, IR, the state, the terminal flag
\* and the memory.  A FETCH step changes only IR (to the word at PC), PC
\* (by exactly 1) and the state (to EXECUTE); executing LDA, ADD or SUB
\* changes only ACC and the state; executing STO at an address in
\* 0 .. size-1 other than the reserved one changes exactly that cell (to
\* ACC) and the state; no step changes the length of the memory and no
\* step other than an executed STO changes a cell.
C16_FrameConditions ==
    [][ /\ Len(mem') = Len(mem)
        /\ ~AboutToExecute(STO) => mem' = mem
        /\ (Running /\ state = "FETCH") =>
              /\ PC' = PC + 1
              /\ ACC' = ACC /\ mem' = mem /\ done' = done
              /\ state' = "EXECUTE"
              /\ (PC < Len(mem)) => (pc' = "loop" /\ IR' = mem[PC + 1])
        /\ (AboutToExecute(LDA) \/ AboutToExecute(ADD) \/ AboutToExecute(SUB)) =>
              /\ PC' = PC /\ IR' = IR /\ mem' = mem /\ done' = done
              /\ (pc' = "loop") => state' = "FETCH"
        /\ (AboutToExecute(STO) /\ get_operand(IR) < Len(mem)) =>
              /\ pc' = "loop" /\ state' = "FETCH"
              /\ PC' = PC /\ ACC' = ACC /\ IR' = IR /\ done' = done
              /\ mem'[get_operand(IR) + 1] = ACC
              /\ \A i \in 1..Len(mem) :
                    i # get_operand(IR) + 1 => mem'[i] = mem[i]
      ]_vars

\* SUB 2, then STO 2 has replaced the third of three words by ACC
C16_Witness ==
    /\ pc = "loop" /\ state = "FETCH" /\ PC = 2
    /\ IR = 4098 /\ ACC = -12290
    /\ mem = <<12290, 4098, -12290>>

\* the machine is in the EXECUTE state with an IR whose bits above the
\* operand are no opcode
NoOpcode == pc = "loop" /\ state = "EXECUTE" /\ (IR \div 4096) \notin 0..7

\* C17: once IR >> 12 is outside 0..7 every later step changes nothing but
\* the step counter: the state stays EXECUTE, PC, ACC, IR and the memory
\* are unchanged and the terminal flag is never set; the run can end only
\* by the step limit, so with no limit it never halts.
C17_NoOpcodeSpins ==
    [][ NoOpcode =>
          /\ ~done /\ ~done'
          /\ UNCHANGED <<PC, ACC, IR, mem, state, stdin, stdout>>
          /\ pc' \in {"loop", "returned"}
          /\ (pc' = "loop") => steps' = steps + 1
          /\ (pc' = "returned") => (limit > 0 /\ steps = limit /\ steps' = steps)
      ]_vars

\* the data word 0x8000 was fetched and three EXECUTE iterations have run
\* on it, with no step limit
C17_Witness ==
    /\ NoOpcode /\ limit = 0
    /\ IR = 32768 /\ PC = 1 /\ ACC = 0
    /\ steps = 4 /\ executed = 3 /\ ~done

\* the process has left emulate's loop: by return or by the fatal access
Stopped == pc \in {"returned", "exit139"}

\* C18: with a positive step limit every run that entered the loop
\* eventually stops, and a run stops in exactly three ways: the fatal
\* out-of-range access, the terminal flag set by STP, or the step counter
\* having reached the limit; with no limit, only by the first two.
C18_RunStops ==
    /\ (limit > 0 /\ pc = "loop") ~> Stopped
    /\ [](pc = "returned" =>
            IF limit > 0 THEN done \/ steps = limit ELSE done)

\* a run that stopped because the step counter reached the limit
C18_Witness ==
    /\ pc = "returned" /\ ~done /\ reported
    /\ limit = 4 /\ steps = 4

\* the next iteration fetches an instruction at address a: the FETCH state
\* with PC = a, or a taken jump with operand a
FetchesAt(a) ==
    \/ Running /\ state = "FETCH" /\ PC = a
    \/ AboutToJump /\ get_operand(IR) = a

\* C19: an instruction fetch at the reserved address 4095 goes through get
\* like a data access: it does not fault and does not read the storage
\* array, PC becomes 4096, and with a console character available the
\* fetch consumes exactly that character and loads its code into IR.
C19_FetchFromConsole ==
    [][ FetchesAt(IO_ADDRESS) =>
          /\ pc' = "loop" /\ PC' = IO_ADDRESS + 1
          /\ state' = "EXECUTE"
          /\ mem' = mem /\ ACC' = ACC /\ stdout' = stdout
          /\ (stdin # <<>>) => (IR' = Head(stdin) /\ stdin' = Tail(stdin))
      ]_vars

\* JMP 0xfff was executed with "AB" on the console: IR holds 'A', 'B' is
\* left, PC is 4096
C19_Witness ==
    /\ pc = "loop" /\ state = "EXECUTE"
    /\ PC = 4096 /\ IR = 65 /\ stdin = <<66>>
    /\ jumps = 1 /\ steps = 2

=============================================================================
